---- MODULE Spec2Model ----
(***************************************************************************)
(* Model of the svetla service worker (src/sw.js): install-time precache,  *)
(* activate-time cleanup, the three fetch strategies and trimCache.        *)
(*                                                                         *)
(* Every "await" of the source is a suspension point: one action runs the  *)
(* code from one suspension point to the next.  The Cache Storage and the  *)
(* network are the environment: a network fetch settles as a successful    *)
(* response, a non-successful response or an error; a store (cache.put)    *)
(* and a trim may fail (quota) or be lost, which the code swallows.        *)
(*                                                                         *)
(* Strings the code takes apart (startsWith, endsWith, includes, template  *)
(* strings) are sequences of tokens, so that those functions are computed. *)
(***************************************************************************)
EXTENDS Integers, Sequences, FiniteSets, TLC

VARIABLES
    caches,     \* Cache Storage: partition name -> entries in insertion order
    handlers,   \* fetch-event handlers (the async function given to respondWith)
    puts,       \* the un-awaited cache.put started by each fetch handler
    trims,      \* the un-awaited trimCache call started by each fetch handler
    install,    \* the install handler's task
    activate,   \* the activate handler's task
    start       \* history: the Cache Storage when the operation under study began

vars == <<caches, handlers, puts, trims, install, activate, start>>

-----------------------------------------------------------------------------
(* Bounds of the model *)

\* number of fetch events handled
MaxFetch == 2
\* src/sw.js:32 sets 120; the model trims at a small threshold
MAX_ASSET_ENTRIES == 2
\* largest maxEntries argument and partition size tried on trimCache alone
MaxTrimArg == 3
MaxTrimLen == 4

HandlerIds == 1..MaxFetch

-----------------------------------------------------------------------------
(* Configuration: src/sw.js lines 11-29 *)

APP_VERSION == <<"2025-12-18_03">>
CACHE_PREFIX == <<"svetla">>
CACHE_HTML == CACHE_PREFIX \o <<"-html-">> \o APP_VERSION
CACHE_ASSETS == CACHE_PREFIX \o <<"-assets-">> \o APP_VERSION

RootPath == <<".", "/">>
IndexPath == <<".", "/", "index", ".html">>
ManifestPath == <<".", "/", "manifest", ".json">>
SwPath == <<".", "/", "sw", ".js">>
Icon192Path == <<".", "/", "icons", "/", "icon-192", ".png">>
Icon512Path == <<".", "/", "icons", "/", "icon-512", ".png">>

CORE_ASSETS == <<RootPath, IndexPath, ManifestPath, SwPath, Icon192Path, Icon512Path>>

LocationOrigin == "https://berniocal.github.io"

-----------------------------------------------------------------------------
(* Strings as token sequences *)

StartsWith(s, prefix) ==
    /\ Len(s) >= Len(prefix)
    /\ SubSeq(s, 1, Len(prefix)) = prefix

EndsWith(s, suffix) ==
    /\ Len(s) >= 1
    /\ s[Len(s)] = suffix

Includes(s, x) == \E j \in 1..Len(s) : s[j] = x

-----------------------------------------------------------------------------
(* Responses *)

\* "no response": undefined / null in the source
NoResponse == [url |-> <<>>, status |-> 0, ctype |-> <<>>, body |-> "", gen |-> 0]

\* a response from the network; gen tells the fetches apart (0: install)
NetResponse(url, status, gen) ==
    [url |-> url, status |-> status, ctype |-> <<"origin">>, body |-> "content", gen |-> gen]

\* Ok with the fault of taking every response that arrived for a success (C17)
Ok_AnyStatus(res) == res.status >= 100

\* Response.ok
Ok(res) == res.status >= 200 /\ res.status <= 299

\* Offline503 with the fault of answering like the other strategies (C4)
Offline503_AsGatewayTimeout ==
    [url |-> <<>>, status |-> 504, ctype |-> <<>>, body |-> "", gen |-> 0]

\* line 141: new Response('Offline', { status: 503, headers: ... })
Offline503 ==
    [url |-> <<>>, status |-> 503, ctype |-> <<"text/plain", "; charset=utf-8">>,
     body |-> "Offline", gen |-> 0]

\* Empty504 with the fault of returning the null of fetchPromise (C6)
Empty504_Null == NoResponse

\* lines 178, 193: new Response('', { status: 504 })
Empty504 == [url |-> <<>>, status |-> 504, ctype |-> <<>>, body |-> "", gen |-> 0]

\* how a network fetch settles
NetOutcomes == {"ok", "nonok", "error"}

FetchResult(url, outcome, gen) ==
    CASE outcome = "ok" -> NetResponse(url, 200, gen)
      [] outcome = "nonok" -> NetResponse(url, 404, gen)
      [] OTHER -> NoResponse

-----------------------------------------------------------------------------
(* Cache Storage *)

Entry(key, resp) == [key |-> key, resp |-> resp]

\* cache.match(request): the stored response, or undefined
CacheMatch(entries, key) ==
    IF \E j \in 1..Len(entries) : entries[j].key = key
    THEN entries[CHOOSE j \in 1..Len(entries) : entries[j].key = key].resp
    ELSE NoResponse

\* cache.delete(request)
CacheDelete(entries, key) ==
    LET Keep(e) == e.key # key IN SelectSeq(entries, Keep)

\* CachePut with the fault of keeping the entry a key already has (C15)
CachePut_KeepFirst(entries, key, resp) ==
    IF \E j \in 1..Len(entries) : entries[j].key = key
    THEN entries
    ELSE Append(entries, [key |-> key, resp |-> resp])

\* cache.put(request, response): replaces the entry of the key; the new entry
\* is the youngest
CachePut(entries, key, resp) == Append(CacheDelete(entries, key), Entry(key, resp))

\* cache.keys(): the keys in insertion order
CacheKeys(entries) == [j \in 1..Len(entries) |-> entries[j].key]

\* caches.open(name): creates the partition if it is absent
CachesOpen(cs, name) ==
    [n \in (DOMAIN cs) \cup {name} |-> IF n \in DOMAIN cs THEN cs[n] ELSE <<>>]

\* caches.delete(name)
CachesDelete(cs, name) == [n \in (DOMAIN cs) \ {name} |-> cs[n]]

\* a write through a Cache handle reaches the storage while the partition exists
CachesPut(cs, name, key, resp) ==
    IF name \in DOMAIN cs
    THEN [cs EXCEPT ![name] = CachePut(@, key, resp)]
    ELSE cs

CachesMatch(cs, name, key) ==
    IF name \in DOMAIN cs THEN CacheMatch(cs[name], key) ELSE NoResponse

Count(entries, key) == Cardinality({j \in 1..Len(entries) : entries[j].key = key})

-----------------------------------------------------------------------------
(* Requests and their classification: src/sw.js lines 35-47 *)

Request(url, method, origin, mode, accept, destination) ==
    [url |-> url, method |-> method, origin |-> origin, mode |-> mode,
     accept |-> accept, destination |-> destination]

NoRequest == Request(<<>>, "", "", "", <<>>, "")

isSameOrigin(url) == url.origin = LocationOrigin

isHTMLRequest(request) ==
    \/ request.mode = "navigate"
    \/ Includes(request.accept, "text/html")

\* isAssetRequest with the fault of a shorter list of destinations (C14)
isAssetRequest_ScriptStyleImage(request) ==
    LET dest == request.destination
    IN  dest = "script" \/ dest = "style" \/ dest = "image"

isAssetRequest(request) ==
    LET dest == request.destination
    IN  \/ dest = "script" \/ dest = "style" \/ dest = "image"
        \/ dest = "font" \/ dest = "audio" \/ dest = "video"

-----------------------------------------------------------------------------
(* Task records *)

IdleHandler ==
    [pc |-> "idle", req |-> NoRequest, net |-> "none", fresh |-> NoResponse,
     cached |-> NoResponse, response |-> NoResponse]

NoPut == [state |-> "none", cacheName |-> <<>>, key |-> <<>>, resp |-> NoResponse]

\* cache.put(req, fresh.clone()) called and not awaited
PutStart(cacheName, key, resp) ==
    [state |-> "pending", cacheName |-> cacheName, key |-> key, resp |-> resp]

NoTrim ==
    [pc |-> "none", cacheName |-> <<>>, maxEntries |-> 0, keys |-> <<>>,
     i |-> 0, deleteCount |-> 0]

\* trimCache(cacheName, maxEntries) called: it runs up to its first await,
\* caches.open(cacheName)
trimCache(cacheName, maxEntries) ==
    [pc |-> "open", cacheName |-> cacheName, maxEntries |-> maxEntries,
     keys |-> <<>>, i |-> 0, deleteCount |-> 0]

\* task: the state of the precache task of each manifest path; fetched: how
\* its network fetch settled
IdleInstall ==
    [pc |-> "idle",
     task |-> [p \in {CORE_ASSETS[j] : j \in 1..Len(CORE_ASSETS)} |-> "none"],
     fetched |-> [p \in {CORE_ASSETS[j] : j \in 1..Len(CORE_ASSETS)} |-> "none"],
     skipWaiting |-> FALSE]

IdleActivate == [pc |-> "idle", keys |-> {}, pending |-> {}, claimed |-> FALSE]

\* the handler answers the event with r
Respond(h, r) == [h EXCEPT !.pc = "responded", !.response = r]

\* HtmlStore with the fault of writing to the asset partition (C1)
HtmlStore_IntoAssets(req, fresh) == PutStart(CACHE_ASSETS, req.url, fresh)

\* line 128: htmlCache.put(req, fresh.clone())
HtmlStore(req, fresh) == PutStart(CACHE_HTML, req.url, fresh)

\* AssetStore with the fault of a key that differs from fetch to fetch (C7)
AssetStore_FreshKey(req, fresh) ==
    PutStart(CACHE_ASSETS, req.url \o [j \in 1..fresh.gen |-> "?"], fresh)

\* AssetStore with the fault of returning the fresh response unstored (C16)
AssetStore_Unstored(req, fresh) == NoPut

\* line 158: cache.put(req, fresh.clone())
AssetStore(req, fresh) == PutStart(CACHE_ASSETS, req.url, fresh)

\* line 188: cache.put(req, fresh.clone())
OtherStore(req, fresh) == PutStart(CACHE_ASSETS, req.url, fresh)

\* HtmlLookup with the fault of looking the fallback document up first (C2)
HtmlLookup_Index(cs, req) == CachesMatch(cs, CACHE_HTML, IndexPath)

\* line 133: htmlCache.match(req)
HtmlLookup(cs, req) == CachesMatch(cs, CACHE_HTML, req.url)

\* HtmlFallback with the fault of falling back to './' (C3)
HtmlFallback_Root(cs) == CachesMatch(cs, CACHE_HTML, RootPath)

\* line 137: htmlCache.match('./index.html')
HtmlFallback(cs) == CachesMatch(cs, CACHE_HTML, IndexPath)

\* line 151: cache.match(req)
AssetLookup(cs, req) == CachesMatch(cs, CACHE_ASSETS, req.url)

\* line 191: cache.match(req)
OtherLookup(cs, req) == CachesMatch(cs, CACHE_ASSETS, req.url)

\* AssetAnswer with the fault of always waiting for the network (C5)
AssetAnswer_AwaitNetwork(g, cached) == [g EXCEPT !.pc = "await"]

\* lines 168-174: a cached entry is returned at once; without one the handler
\* waits for fetchPromise
AssetAnswer(g, cached) ==
    IF cached # NoResponse THEN Respond(g, cached) ELSE [g EXCEPT !.pc = "await"]

-----------------------------------------------------------------------------
(* trimCache: src/sw.js lines 50-58 *)

\* DeleteCount with the fault of deleting one entry per trim (C18)
DeleteCount_One(keys, maxEntries) == 1

\* line 54: const deleteCount = keys.length - maxEntries
DeleteCount(keys, maxEntries) == Len(keys) - maxEntries

\* TrimVictim with the fault of deleting the last key of the list (C19)
TrimVictim_Last(t) == t.keys[Len(t.keys)]

\* TrimVictim with the fault of evicting the youngest entries first (C9)
TrimVictim_Youngest(t) == t.keys[Len(t.keys) - t.i]

\* line 56: keys[i], the key the loop deletes next
TrimVictim(t) == t.keys[t.i + 1]

\* line 51: caches.open(cacheName) resolves
TrimOpen(i) ==
    /\ trims[i].pc = "open"
    /\ caches' = CachesOpen(caches, trims[i].cacheName)
    /\ trims' = [trims EXCEPT ![i].pc = "keys"]
    /\ UNCHANGED <<handlers, puts, install, activate, start>>

\* lines 52-55: cache.keys() resolves; nothing to do, or the first delete is called
TrimKeys(i) ==
    /\ trims[i].pc = "keys"
    /\ LET t == trims[i]
           keys == IF t.cacheName \in DOMAIN caches
                   THEN CacheKeys(caches[t.cacheName]) ELSE <<>>
       IN  trims' = [trims EXCEPT ![i] =
                IF Len(keys) <= t.maxEntries
                THEN [t EXCEPT !.pc = "done", !.keys = keys]
                ELSE [t EXCEPT !.pc = "delete", !.keys = keys,
                               !.deleteCount = DeleteCount(keys, t.maxEntries)]]
    /\ UNCHANGED <<caches, handlers, puts, install, activate, start>>

\* lines 55-57: cache.delete(keys[i]) resolves; the loop goes on or ends
TrimDelete(i) ==
    /\ trims[i].pc = "delete"
    /\ LET t == trims[i]
           key == TrimVictim(t)
       IN  /\ caches' = IF t.cacheName \in DOMAIN caches
                        THEN [caches EXCEPT ![t.cacheName] = CacheDelete(@, key)]
                        ELSE caches
           /\ trims' = [trims EXCEPT ![i] =
                [t EXCEPT !.i = t.i + 1,
                          !.pc = IF t.i + 1 < t.deleteCount THEN "delete" ELSE "done"]]
    /\ UNCHANGED <<handlers, puts, install, activate, start>>

\* a storage operation of trimCache rejects: the caller's .catch swallows it
TrimFail(i) ==
    /\ trims[i].pc \in {"open", "keys", "delete"}
    /\ trims' = [trims EXCEPT ![i].pc = "failed"]
    /\ UNCHANGED <<caches, handlers, puts, install, activate, start>>

-----------------------------------------------------------------------------
(* The un-awaited stores of the fetch handlers: src/sw.js lines 128, 158, 188 *)

PutDone(i) ==
    /\ puts[i].state = "pending"
    /\ caches' = CachesPut(caches, puts[i].cacheName, puts[i].key, puts[i].resp)
    /\ puts' = [puts EXCEPT ![i].state = "done"]
    /\ UNCHANGED <<handlers, trims, install, activate, start>>

\* the store rejects (quota) or the worker stops before it completes
PutFail(i) ==
    /\ puts[i].state = "pending"
    /\ puts' = [puts EXCEPT ![i].state = "failed"]
    /\ UNCHANGED <<caches, handlers, trims, install, activate, start>>

-----------------------------------------------------------------------------
(* The fetch handler: src/sw.js lines 108-196 *)

\* Eligible with the fault of leaving the method test out (C11)
Eligible_AnyMethod(req) == isSameOrigin(req)

\* lines 113, 116: the two early returns of the listener
Eligible(req) == ~(req.method # "GET") /\ ~(~isSameOrigin(req))

\* lines 108-116: the listener; a request that is not a same-origin GET is left alone
FetchEvent(i, req) ==
    /\ handlers[i].pc = "idle"
    /\ \A j \in HandlerIds : j < i => handlers[j].pc # "idle"
    /\ handlers' = [handlers EXCEPT ![i] =
            [@ EXCEPT !.req = req,
                      !.pc = IF ~Eligible(req) THEN "passthrough" ELSE "open"]]
    /\ UNCHANGED <<caches, puts, trims, install, activate, start>>

\* line 121: caches.open(CACHE_HTML) resolves; line 125: the network fetch starts
HtmlOpen(i) ==
    /\ handlers[i].pc = "open"
    /\ isHTMLRequest(handlers[i].req)
    /\ caches' = CachesOpen(caches, CACHE_HTML)
    /\ handlers' = [handlers EXCEPT ![i].pc = "fetch", ![i].net = "pending"]
    /\ UNCHANGED <<puts, trims, install, activate, start>>

\* lines 125-133: the network fetch settles
HtmlFetchSettle(i, outcome) ==
    /\ handlers[i].pc = "fetch"
    /\ isHTMLRequest(handlers[i].req)
    /\ LET h == handlers[i]
           fresh == FetchResult(h.req.url, outcome, i)
       IN  IF outcome = "error"
           THEN /\ handlers' = [handlers EXCEPT ![i].pc = "match", ![i].net = outcome]
                /\ puts' = puts
           ELSE /\ handlers' = [handlers EXCEPT ![i] =
                        Respond([h EXCEPT !.net = outcome, !.fresh = fresh], fresh)]
                /\ puts' = IF Ok(fresh)
                           THEN [puts EXCEPT ![i] = HtmlStore(h.req, fresh)]
                           ELSE puts
    /\ UNCHANGED <<caches, trims, install, activate, start>>

\* lines 133-137: htmlCache.match(req) resolves
HtmlMatch(i) ==
    /\ handlers[i].pc = "match"
    /\ isHTMLRequest(handlers[i].req)
    /\ LET h == handlers[i]
           cached == HtmlLookup(caches, h.req)
       IN  handlers' = [handlers EXCEPT ![i] =
                IF cached # NoResponse
                THEN Respond([h EXCEPT !.cached = cached], cached)
                ELSE [h EXCEPT !.pc = "matchIndex"]]
    /\ UNCHANGED <<caches, puts, trims, install, activate, start>>

\* lines 137-141: htmlCache.match('./index.html') resolves
HtmlMatchIndex(i) ==
    /\ handlers[i].pc = "matchIndex"
    /\ LET h == handlers[i]
           fallback == HtmlFallback(caches)
       IN  handlers' = [handlers EXCEPT ![i] =
                IF fallback # NoResponse
                THEN Respond(h, fallback)
                ELSE Respond(h, Offline503)]
    /\ UNCHANGED <<caches, puts, trims, install, activate, start>>

\* line 150: caches.open(CACHE_ASSETS) resolves; line 151: cache.match(req) is called
AssetOpen(i) ==
    /\ handlers[i].pc = "open"
    /\ ~isHTMLRequest(handlers[i].req)
    /\ isAssetRequest(handlers[i].req)
    /\ caches' = CachesOpen(caches, CACHE_ASSETS)
    /\ handlers' = [handlers EXCEPT ![i].pc = "match"]
    /\ UNCHANGED <<puts, trims, install, activate, start>>

\* lines 151-174: cache.match(req) resolves, the network fetch starts, and a
\* cached entry is returned at once
AssetMatch(i) ==
    /\ handlers[i].pc = "match"
    /\ ~isHTMLRequest(handlers[i].req)
    /\ isAssetRequest(handlers[i].req)
    /\ LET h == handlers[i]
           cached == AssetLookup(caches, h.req)
           g == [h EXCEPT !.cached = cached, !.net = "pending"]
       IN  handlers' = [handlers EXCEPT ![i] = AssetAnswer(g, cached)]
    /\ UNCHANGED <<caches, puts, trims, install, activate, start>>

\* lines 153-165 and 174-178: the network fetch of fetchPromise settles
AssetFetchSettle(i, outcome) ==
    /\ handlers[i].pc \in {"await", "responded"}
    /\ handlers[i].net = "pending"
    /\ ~isHTMLRequest(handlers[i].req)
    /\ isAssetRequest(handlers[i].req)
    /\ LET h == handlers[i]
           fresh == FetchResult(h.req.url, outcome, i)
           g == [h EXCEPT !.net = outcome, !.fresh = fresh]
       IN  /\ handlers' = [handlers EXCEPT ![i] =
                    IF h.pc = "responded" THEN g
                    ELSE IF fresh # NoResponse THEN Respond(g, fresh)
                    ELSE Respond(g, Empty504)]
           /\ IF fresh # NoResponse /\ Ok(fresh)
              THEN /\ puts' = [puts EXCEPT ![i] = AssetStore(h.req, fresh)]
                   /\ trims' = [trims EXCEPT ![i] = trimCache(CACHE_ASSETS, MAX_ASSET_ENTRIES)]
              ELSE UNCHANGED <<puts, trims>>
    /\ UNCHANGED <<caches, install, activate, start>>

\* line 185: caches.open(CACHE_ASSETS) resolves; line 187: the network fetch starts
OtherOpen(i) ==
    /\ handlers[i].pc = "open"
    /\ ~isHTMLRequest(handlers[i].req)
    /\ ~isAssetRequest(handlers[i].req)
    /\ caches' = CachesOpen(caches, CACHE_ASSETS)
    /\ handlers' = [handlers EXCEPT ![i].pc = "fetch", ![i].net = "pending"]
    /\ UNCHANGED <<puts, trims, install, activate, start>>

\* lines 187-191: the network fetch settles
OtherFetchSettle(i, outcome) ==
    /\ handlers[i].pc = "fetch"
    /\ ~isHTMLRequest(handlers[i].req)
    /\ ~isAssetRequest(handlers[i].req)
    /\ LET h == handlers[i]
           fresh == FetchResult(h.req.url, outcome, i)
       IN  IF outcome = "error"
           THEN /\ handlers' = [handlers EXCEPT ![i].pc = "match", ![i].net = outcome]
                /\ puts' = puts
           ELSE /\ handlers' = [handlers EXCEPT ![i] =
                        Respond([h EXCEPT !.net = outcome, !.fresh = fresh], fresh)]
                /\ puts' = IF Ok(fresh)
                           THEN [puts EXCEPT ![i] = OtherStore(h.req, fresh)]
                           ELSE puts
    /\ UNCHANGED <<caches, trims, install, activate, start>>

\* lines 191-193: cache.match(req) resolves
OtherMatch(i) ==
    /\ handlers[i].pc = "match"
    /\ ~isHTMLRequest(handlers[i].req)
    /\ ~isAssetRequest(handlers[i].req)
    /\ LET h == handlers[i]
           cached == OtherLookup(caches, h.req)
       IN  handlers' = [handlers EXCEPT ![i] =
                IF cached # NoResponse
                THEN Respond([h EXCEPT !.cached = cached], cached)
                ELSE Respond(h, Empty504)]
    /\ UNCHANGED <<caches, puts, trims, install, activate, start>>

-----------------------------------------------------------------------------
(* Rejections of the awaited storage operations of the fetch handler *)

\* lines 121, 150, 185: caches.open rejects; the await is outside every try, so
\* the promise given to respondWith rejects
OpenFail(i) ==
    /\ handlers[i].pc = "open"
    /\ handlers' = [handlers EXCEPT ![i].pc = "rejected"]
    /\ UNCHANGED <<caches, puts, trims, install, activate, start>>

\* lines 133, 137, 191: cache.match rejects inside a catch block; line 151: it
\* rejects outside every try; the promise given to respondWith rejects
MatchFail(i) ==
    /\ handlers[i].pc \in {"match", "matchIndex"}
    /\ handlers' = [handlers EXCEPT ![i].pc = "rejected"]
    /\ UNCHANGED <<caches, puts, trims, install, activate, start>>

-----------------------------------------------------------------------------
(* The install handler: src/sw.js lines 61-87 *)

\* lines 68-69
htmlList ==
    LET DocumentLike(p) == EndsWith(p, "/") \/ EndsWith(p, ".html")
    IN  SelectSeq(CORE_ASSETS, DocumentLike)

assetList ==
    LET Rest(p) == ~Includes(htmlList, p)
    IN  SelectSeq(CORE_ASSETS, Rest)

Elements(list) == {list[j] : j \in 1..Len(list)}

\* lines 75, 81: htmlCache for the tasks of htmlList, assetsCache for the others
InstallPartition(p) == IF Includes(htmlList, p) THEN CACHE_HTML ELSE CACHE_ASSETS

\* Settled with the fault of Promise.all: one rejected task rejects the whole (C10)
Settled_All(task, list) ==
    IF \E p \in Elements(list) : task[p] = "rejected" THEN "rejected"
    ELSE IF \A p \in Elements(list) : task[p] = "fulfilled" THEN "fulfilled"
    ELSE "pending"

\* lines 72, 78: Promise.allSettled over the tasks of a list
Settled(task, list) ==
    IF \A p \in Elements(list) : task[p] \in {"fulfilled", "rejected"}
    THEN "fulfilled" ELSE "pending"

\* the tasks of a list run up to their first await, fetch(req)
StartTasks(task, list) ==
    [p \in DOMAIN task |-> IF p \in Elements(list) THEN "fetching" ELSE task[p]]

\* the install event fires; line 64: caches.open(CACHE_HTML) is called
InstallStart ==
    /\ install.pc = "idle"
    /\ install' = [install EXCEPT !.pc = "openHtml"]
    /\ start' = caches
    /\ UNCHANGED <<caches, handlers, puts, trims, activate>>

\* line 64 resolves; line 65: caches.open(CACHE_ASSETS) is called
InstallOpenHtml ==
    /\ install.pc = "openHtml"
    /\ caches' = CachesOpen(caches, CACHE_HTML)
    /\ install' = [install EXCEPT !.pc = "openAssets"]
    /\ UNCHANGED <<handlers, puts, trims, activate, start>>

\* line 65 resolves; lines 68-74: the tasks of htmlList start
InstallOpenAssets ==
    /\ install.pc = "openAssets"
    /\ caches' = CachesOpen(caches, CACHE_ASSETS)
    /\ install' = [install EXCEPT !.pc = "html", !.task = StartTasks(@, htmlList)]
    /\ UNCHANGED <<handlers, puts, trims, activate, start>>

\* lines 74-75, 80-81: the fetch of one path settles; a successful response is stored
InstallFetchSettle(p, outcome) ==
    /\ install.task[p] = "fetching"
    /\ install' = [install EXCEPT
            !.fetched[p] = outcome,
            !.task[p] = CASE outcome = "error" -> "rejected"
                          [] Ok(FetchResult(p, outcome, 0)) -> "putting"
                          [] OTHER -> "fulfilled"]
    /\ UNCHANGED <<caches, handlers, puts, trims, activate, start>>

\* lines 75, 81: the put of one path resolves
InstallPutDone(p) ==
    /\ install.task[p] = "putting"
    /\ caches' = CachesPut(caches, InstallPartition(p), p, FetchResult(p, install.fetched[p], 0))
    /\ install' = [install EXCEPT !.task[p] = "fulfilled"]
    /\ UNCHANGED <<handlers, puts, trims, activate, start>>

\* lines 75, 81: the put of one path rejects (quota); the task rejects
InstallPutFail(p) ==
    /\ install.task[p] = "putting"
    /\ install' = [install EXCEPT !.task[p] = "rejected"]
    /\ UNCHANGED <<caches, handlers, puts, trims, activate, start>>

\* line 72 resolves; lines 78-80: the tasks of assetList start
InstallHtmlSettled ==
    /\ install.pc = "html"
    /\ Settled(install.task, htmlList) # "pending"
    /\ install' = IF Settled(install.task, htmlList) = "rejected"
                  THEN [install EXCEPT !.pc = "failed"]
                  ELSE [install EXCEPT !.pc = "assets", !.task = StartTasks(@, assetList)]
    /\ UNCHANGED <<caches, handlers, puts, trims, activate, start>>

\* line 78 resolves; line 85: self.skipWaiting() is called
InstallAssetsSettled ==
    /\ install.pc = "assets"
    /\ Settled(install.task, assetList) # "pending"
    /\ install' = IF Settled(install.task, assetList) = "rejected"
                  THEN [install EXCEPT !.pc = "failed"]
                  ELSE [install EXCEPT !.pc = "skipWaiting", !.skipWaiting = TRUE]
    /\ UNCHANGED <<caches, handlers, puts, trims, activate, start>>

\* line 85 resolves: the promise given to waitUntil is fulfilled
InstallDone ==
    /\ install.pc = "skipWaiting"
    /\ install' = [install EXCEPT !.pc = "done"]
    /\ UNCHANGED <<caches, handlers, puts, trims, activate, start>>

-----------------------------------------------------------------------------
(* The activate handler: src/sw.js lines 90-105 *)

\* line 94
allowed == {CACHE_HTML, CACHE_ASSETS}

\* ShouldDelete with the fault of leaving the prefix test out (C8)
ShouldDelete_AnyName(k) == ~(k \in allowed)

\* line 97
ShouldDelete(k) == StartsWith(k, CACHE_PREFIX) /\ ~(k \in allowed)

\* the activate event fires; line 93: caches.keys() is called
ActivateStart ==
    /\ activate.pc = "idle"
    /\ activate' = [activate EXCEPT !.pc = "keys"]
    /\ start' = caches
    /\ UNCHANGED <<caches, handlers, puts, trims, install>>

\* line 93 resolves; lines 96-98: caches.delete is called for every name to delete
ActivateKeys ==
    /\ activate.pc = "keys"
    /\ activate' = [activate EXCEPT
            !.pc = "deleting",
            !.keys = DOMAIN caches,
            !.pending = {k \in DOMAIN caches : ShouldDelete(k)}]
    /\ UNCHANGED <<caches, handlers, puts, trims, install, start>>

\* line 98: one caches.delete(k) resolves
ActivateDelete(k) ==
    /\ activate.pc = "deleting"
    /\ k \in activate.pending
    /\ caches' = CachesDelete(caches, k)
    /\ activate' = [activate EXCEPT !.pending = @ \ {k}]
    /\ UNCHANGED <<handlers, puts, trims, install, start>>

\* line 96 resolves; line 103: self.clients.claim() is called
ActivateClaim ==
    /\ activate.pc = "deleting"
    /\ activate.pending = {}
    /\ activate' = [activate EXCEPT !.pc = "claim", !.claimed = TRUE]
    /\ UNCHANGED <<caches, handlers, puts, trims, install, start>>

\* line 103 resolves: the promise given to waitUntil is fulfilled
ActivateDone ==
    /\ activate.pc = "claim"
    /\ activate' = [activate EXCEPT !.pc = "done"]
    /\ UNCHANGED <<caches, handlers, puts, trims, install, start>>

-----------------------------------------------------------------------------
(* The fetch events of the model *)

PagePath == <<".", "/", "page", ".html">>
AppJsPath == <<".", "/", "app", ".js">>
DataPath == <<".", "/", "data", ".json">>

HtmlAccept == <<"text/html", "application/xhtml+xml", "*/*">>
AnyAccept == <<"*/*">>

ReqPage == Request(PagePath, "GET", LocationOrigin, "navigate", HtmlAccept, "document")
ReqIcon == Request(Icon192Path, "GET", LocationOrigin, "no-cors", <<"image/png", "*/*">>, "image")
ReqManifest == Request(ManifestPath, "GET", LocationOrigin, "cors", AnyAccept, "manifest")
ReqPost == Request(DataPath, "POST", LocationOrigin, "cors", AnyAccept, "")
ReqCdn == Request(AppJsPath, "GET", "https://cdn.example", "no-cors", AnyAccept, "script")

Requests == {ReqPage, ReqIcon, ReqManifest, ReqPost, ReqCdn}

\* the entries install stores for the paths of a list: src/sw.js lines 72-82
Precached(paths) == [j \in 1..Len(paths) |-> Entry(paths[j], NetResponse(paths[j], 200, 0))]

\* what install can have left in the two partitions when fetch events start:
\* nothing stored, some paths stored, every path stored
Installed ==
    {<<<<>>, <<>>>>,
     <<<<RootPath>>, <<ManifestPath, Icon192Path>>>>,
     <<<<RootPath, IndexPath>>, <<ManifestPath, SwPath, Icon192Path, Icon512Path>>>>}

Init ==
    /\ \E stored \in Installed :
          caches = (CACHE_HTML :> Precached(stored[1]))
                   @@ (CACHE_ASSETS :> Precached(stored[2]))
    /\ handlers = [i \in HandlerIds |-> IdleHandler]
    /\ puts = [i \in HandlerIds |-> NoPut]
    /\ trims = [i \in HandlerIds |-> NoTrim]
    /\ install = IdleInstall
    /\ activate = IdleActivate
    /\ start = caches

Next ==
    \/ \E i \in HandlerIds, req \in Requests : FetchEvent(i, req)
    \/ \E i \in HandlerIds : HtmlOpen(i)
    \/ \E i \in HandlerIds, outcome \in NetOutcomes : HtmlFetchSettle(i, outcome)
    \/ \E i \in HandlerIds : HtmlMatch(i)
    \/ \E i \in HandlerIds : HtmlMatchIndex(i)
    \/ \E i \in HandlerIds : AssetOpen(i)
    \/ \E i \in HandlerIds : AssetMatch(i)
    \/ \E i \in HandlerIds, outcome \in NetOutcomes : AssetFetchSettle(i, outcome)
    \/ \E i \in HandlerIds : OtherOpen(i)
    \/ \E i \in HandlerIds, outcome \in NetOutcomes : OtherFetchSettle(i, outcome)
    \/ \E i \in HandlerIds : OtherMatch(i)
    \/ \E i \in HandlerIds : PutDone(i)
    \/ \E i \in HandlerIds : PutFail(i)
    \/ \E i \in HandlerIds : TrimOpen(i)
    \/ \E i \in HandlerIds : TrimKeys(i)
    \/ \E i \in HandlerIds : TrimDelete(i)
    \/ \E i \in HandlerIds : TrimFail(i)

Spec == Init /\ [][Next]_vars

-----------------------------------------------------------------------------
(* Asset requests in a worker that is not terminated: a store that has been
   started and does not fail completes *)

ReqScript == Request(AppJsPath, "GET", LocationOrigin, "no-cors", AnyAccept, "script")

\* requests for assets: one that install precaches, one that it does not
AssetRequests == {ReqIcon, ReqScript}

\* the request that is revalidated and the next one
RevalidateIds == {1, 2}

NextRevalidate ==
    \/ \E i \in RevalidateIds, req \in AssetRequests : FetchEvent(i, req)
    \/ \E i \in RevalidateIds : AssetOpen(i)
    \/ \E i \in RevalidateIds : AssetMatch(i)
    \/ \E i \in RevalidateIds, outcome \in NetOutcomes : AssetFetchSettle(i, outcome)
    \/ \E i \in RevalidateIds : PutDone(i)
    \/ \E i \in RevalidateIds : PutFail(i)
    \/ \E i \in RevalidateIds : TrimOpen(i)
    \/ \E i \in RevalidateIds : TrimKeys(i)
    \/ \E i \in RevalidateIds : TrimDelete(i)
    \/ \E i \in RevalidateIds : TrimFail(i)

SpecRevalidate ==
    Init /\ [][NextRevalidate]_vars /\ \A i \in RevalidateIds : WF_vars(PutDone(i))

-----------------------------------------------------------------------------
(* Fetch events on a storage whose awaited operations may reject *)

NextFault ==
    \/ Next
    \/ \E i \in HandlerIds : OpenFail(i)
    \/ \E i \in HandlerIds : MatchFail(i)

SpecFault == Init /\ [][NextFault]_vars

-----------------------------------------------------------------------------
(* trimCache alone, with no other writer *)

TrimKeyPool == <<ManifestPath, SwPath, Icon192Path, Icon512Path, AppJsPath, DataPath>>

\* the sequences of at most n distinct keys of the pool
DistinctKeys(n) ==
    UNION {{ks \in [1..m -> Elements(TrimKeyPool)] :
                \A j, k \in 1..m : ks[j] = ks[k] => j = k} : m \in 0..n}

InitTrim ==
    /\ \E ks \in DistinctKeys(MaxTrimLen) :
          caches = (CACHE_HTML :> <<>>) @@ (CACHE_ASSETS :> Precached(ks))
    /\ handlers = [i \in HandlerIds |-> IdleHandler]
    /\ puts = [i \in HandlerIds |-> NoPut]
    /\ \E maxEntries \in 0..MaxTrimArg :
          trims = [i \in HandlerIds |->
                      IF i = 1 THEN trimCache(CACHE_ASSETS, maxEntries) ELSE NoTrim]
    /\ install = IdleInstall
    /\ activate = IdleActivate
    /\ start = caches

NextTrim ==
    \/ \E i \in HandlerIds : TrimOpen(i)
    \/ \E i \in HandlerIds : TrimKeys(i)
    \/ \E i \in HandlerIds : TrimDelete(i)
    \/ \E i \in HandlerIds : TrimFail(i)

SpecTrim == InitTrim /\ [][NextTrim]_vars

-----------------------------------------------------------------------------
(* Activation alone *)

OLD_VERSION == <<"2025-12-17_01">>
OldHtml == CACHE_PREFIX \o <<"-html-">> \o OLD_VERSION
OldAssets == CACHE_PREFIX \o <<"-assets-">> \o OLD_VERSION
\* names of other applications of the origin: one without the prefix, one that
\* has it inside, one that begins with it
BarvyCache == <<"barvy-v7">>
InnerPrefixCache == <<"moje-", "svetla", "-v1">>
SharedPrefixCache == <<"svetla", "na-v1">>

OtherNames == {OldHtml, OldAssets, BarvyCache, InnerPrefixCache, SharedPrefixCache}

\* what a partition holds when activation starts
ContentOf(name) ==
    CASE name \in {CACHE_HTML, OldHtml} -> Precached(htmlList)
      [] name \in {CACHE_ASSETS, OldAssets} -> Precached(assetList)
      [] OTHER -> Precached(<<RootPath>>)

InitActivate ==
    /\ \E others \in SUBSET OtherNames :
          caches = [n \in allowed \cup others |-> ContentOf(n)]
    /\ handlers = [i \in HandlerIds |-> IdleHandler]
    /\ puts = [i \in HandlerIds |-> NoPut]
    /\ trims = [i \in HandlerIds |-> NoTrim]
    /\ install = [IdleInstall EXCEPT !.pc = "done", !.skipWaiting = TRUE]
    /\ activate = IdleActivate
    /\ start = caches

NextActivate ==
    \/ ActivateStart
    \/ ActivateKeys
    \/ \E k \in allowed \cup OtherNames : ActivateDelete(k)
    \/ ActivateClaim
    \/ ActivateDone

SpecActivate == InitActivate /\ [][NextActivate]_vars

-----------------------------------------------------------------------------
(* Activation of the current version while a request of the previous version,
   answered by the previous worker, still has its background tasks in flight;
   the fetch events of the current version follow the activation *)

\* the previous version ran the same code with OLD_VERSION for APP_VERSION:
\* the tasks its fetch handler left behind for a request (lines 128, 158-159)
OldBackground(req) ==
    IF isHTMLRequest(req)
    THEN <<PutStart(OldHtml, req.url, NetResponse(req.url, 200, 1)), NoTrim>>
    ELSE <<PutStart(OldAssets, req.url, NetResponse(req.url, 200, 1)),
           trimCache(OldAssets, MAX_ASSET_ENTRIES)>>

InitUpgrade ==
    /\ caches = [n \in allowed \cup {OldHtml, OldAssets} |-> ContentOf(n)]
    /\ \E req \in {ReqPage, ReqIcon} :
          /\ handlers = [i \in HandlerIds |->
                IF i = 1
                THEN Respond([IdleHandler EXCEPT !.req = req, !.net = "ok",
                                  !.fresh = NetResponse(req.url, 200, 1)],
                             NetResponse(req.url, 200, 1))
                ELSE IdleHandler]
          /\ puts = [i \in HandlerIds |-> IF i = 1 THEN OldBackground(req)[1] ELSE NoPut]
          /\ trims = [i \in HandlerIds |-> IF i = 1 THEN OldBackground(req)[2] ELSE NoTrim]
    /\ install = [IdleInstall EXCEPT !.pc = "done", !.skipWaiting = TRUE]
    /\ activate = IdleActivate
    /\ start = caches

\* the current worker receives fetch events once it is active
ActiveFetchEvent(i, req) ==
    /\ activate.pc = "done"
    /\ FetchEvent(i, req)

NextUpgrade ==
    \/ NextActivate
    \/ \E i \in HandlerIds, req \in Requests : ActiveFetchEvent(i, req)
    \/ \E i \in HandlerIds : HtmlOpen(i)
    \/ \E i \in HandlerIds, outcome \in NetOutcomes : HtmlFetchSettle(i, outcome)
    \/ \E i \in HandlerIds : HtmlMatch(i)
    \/ \E i \in HandlerIds : HtmlMatchIndex(i)
    \/ \E i \in HandlerIds : AssetOpen(i)
    \/ \E i \in HandlerIds : AssetMatch(i)
    \/ \E i \in HandlerIds, outcome \in NetOutcomes : AssetFetchSettle(i, outcome)
    \/ \E i \in HandlerIds : OtherOpen(i)
    \/ \E i \in HandlerIds, outcome \in NetOutcomes : OtherFetchSettle(i, outcome)
    \/ \E i \in HandlerIds : OtherMatch(i)
    \/ \E i \in HandlerIds : PutDone(i)
    \/ \E i \in HandlerIds : PutFail(i)
    \/ \E i \in HandlerIds : TrimOpen(i)
    \/ \E i \in HandlerIds : TrimKeys(i)
    \/ \E i \in HandlerIds : TrimDelete(i)
    \/ \E i \in HandlerIds : TrimFail(i)

SpecUpgrade == InitUpgrade /\ [][NextUpgrade]_vars

-----------------------------------------------------------------------------
(* One fetch event, its request drawn from what a page can send *)

ImageAccept == <<"image/avif", "image/webp", "*/*">>
\* request.headers.get('accept') is null without the header: '' is used (line 41)
NoAccept == <<>>

Modes == {"navigate", "same-origin", "no-cors", "cors"}
Accepts == {HtmlAccept, AnyAccept, ImageAccept, NoAccept}
Destinations ==
    {"document", "iframe", "script", "style", "image", "font", "audio", "video",
     "manifest", "worker", ""}

\* same-origin GET requests: a navigation has a document-like destination;
\* a subresource carries the accept header of its kind, or that of a document
\* when a link prefetch starts it, or any header a script sets
ClassifyRequests ==
    {Request(Icon192Path, "GET", LocationOrigin, mode, accept, destination) :
        mode \in Modes, accept \in Accepts, destination \in Destinations}
    \cap {req \in [url : {Icon192Path}, method : {"GET"}, origin : {LocationOrigin},
                    mode : Modes, accept : Accepts, destination : Destinations] :
             req.mode = "navigate" <=> req.destination \in {"document", "iframe"}}

\* the Cache Storage is as install left it, or was cleared since
InitClassify ==
    /\ \E cs \in {(CACHE_HTML :> Precached(htmlList)) @@ (CACHE_ASSETS :> Precached(assetList)),
                   <<>>} : caches = cs
    /\ handlers = [i \in HandlerIds |-> IdleHandler]
    /\ puts = [i \in HandlerIds |-> NoPut]
    /\ trims = [i \in HandlerIds |-> NoTrim]
    /\ install = [IdleInstall EXCEPT !.pc = "done", !.skipWaiting = TRUE]
    /\ activate = [IdleActivate EXCEPT !.pc = "done", !.claimed = TRUE]
    /\ start = caches

NextClassify ==
    \/ \E req \in ClassifyRequests : FetchEvent(1, req)
    \/ \E i \in HandlerIds : HtmlOpen(i)
    \/ \E i \in HandlerIds, outcome \in NetOutcomes : HtmlFetchSettle(i, outcome)
    \/ \E i \in HandlerIds : HtmlMatch(i)
    \/ \E i \in HandlerIds : HtmlMatchIndex(i)
    \/ \E i \in HandlerIds : AssetOpen(i)
    \/ \E i \in HandlerIds : AssetMatch(i)
    \/ \E i \in HandlerIds, outcome \in NetOutcomes : AssetFetchSettle(i, outcome)
    \/ \E i \in HandlerIds : OtherOpen(i)
    \/ \E i \in HandlerIds, outcome \in NetOutcomes : OtherFetchSettle(i, outcome)
    \/ \E i \in HandlerIds : OtherMatch(i)
    \/ \E i \in HandlerIds : PutDone(i)
    \/ \E i \in HandlerIds : PutFail(i)
    \/ \E i \in HandlerIds : TrimOpen(i)
    \/ \E i \in HandlerIds : TrimKeys(i)
    \/ \E i \in HandlerIds : TrimDelete(i)
    \/ \E i \in HandlerIds : TrimFail(i)

SpecClassify == InitClassify /\ [][NextClassify]_vars

-----------------------------------------------------------------------------
(* Installation alone *)

InitInstall ==
    /\ \E others \in SUBSET {OldHtml, OldAssets} :
          caches = [n \in others |-> ContentOf(n)]
    /\ handlers = [i \in HandlerIds |-> IdleHandler]
    /\ puts = [i \in HandlerIds |-> NoPut]
    /\ trims = [i \in HandlerIds |-> NoTrim]
    /\ install = IdleInstall
    /\ activate = IdleActivate
    /\ start = caches

NextInstall ==
    \/ InstallStart
    \/ InstallOpenHtml
    \/ InstallOpenAssets
    \/ \E p \in Elements(CORE_ASSETS), outcome \in NetOutcomes : InstallFetchSettle(p, outcome)
    \/ \E p \in Elements(CORE_ASSETS) : InstallPutDone(p)
    \/ \E p \in Elements(CORE_ASSETS) : InstallPutFail(p)
    \/ InstallHtmlSettled
    \/ InstallAssetsSettled
    \/ InstallDone

SpecInstall == InitInstall /\ [][NextInstall]_vars

-----------------------------------------------------------------------------
(* Every writer of the two partitions: the install handler on a storage that
   held at most partitions of an earlier version, and the fetch events of the
   activated worker on what install left *)

InitActive ==
    /\ \E stored \in Installed :
          caches = (CACHE_HTML :> Precached(stored[1]))
                   @@ (CACHE_ASSETS :> Precached(stored[2]))
    /\ handlers = [i \in HandlerIds |-> IdleHandler]
    /\ puts = [i \in HandlerIds |-> NoPut]
    /\ trims = [i \in HandlerIds |-> NoTrim]
    /\ install = [IdleInstall EXCEPT !.pc = "done", !.skipWaiting = TRUE]
    /\ activate = [IdleActivate EXCEPT !.pc = "done", !.claimed = TRUE]
    /\ start = caches

InitWriters == InitInstall \/ InitActive

NextWriters ==
    \/ NextInstall
    \/ \E i \in HandlerIds, req \in Requests : ActiveFetchEvent(i, req)
    \/ \E i \in HandlerIds : HtmlOpen(i)
    \/ \E i \in HandlerIds, outcome \in NetOutcomes : HtmlFetchSettle(i, outcome)
    \/ \E i \in HandlerIds : HtmlMatch(i)
    \/ \E i \in HandlerIds : HtmlMatchIndex(i)
    \/ \E i \in HandlerIds : AssetOpen(i)
    \/ \E i \in HandlerIds : AssetMatch(i)
    \/ \E i \in HandlerIds, outcome \in NetOutcomes : AssetFetchSettle(i, outcome)
    \/ \E i \in HandlerIds : OtherOpen(i)
    \/ \E i \in HandlerIds, outcome \in NetOutcomes : OtherFetchSettle(i, outcome)
    \/ \E i \in HandlerIds : OtherMatch(i)
    \/ \E i \in HandlerIds : PutDone(i)
    \/ \E i \in HandlerIds : PutFail(i)
    \/ \E i \in HandlerIds : TrimOpen(i)
    \/ \E i \in HandlerIds : TrimKeys(i)
    \/ \E i \in HandlerIds : TrimDelete(i)
    \/ \E i \in HandlerIds : TrimFail(i)

SpecWriters == InitWriters /\ [][NextWriters]_vars

-----------------------------------------------------------------------------
(* Asset and 'other' requests handled one after another, on an asset partition
   that install left within the threshold *)

ReqData == Request(DataPath, "GET", LocationOrigin, "cors", AnyAccept, "")

BoundRequests == {ReqIcon, ReqScript, ReqManifest, ReqData}

\* the tasks of install run concurrently: the paths stored are in any order
BoundInstalled ==
    {stored \in {<<>>, <<Icon192Path>>, <<Icon192Path, ManifestPath>>,
                 <<ManifestPath, Icon192Path>>} : Len(stored) <= MAX_ASSET_ENTRIES}

\* nothing of request i is in flight
Settled_Request(i) ==
    /\ handlers[i].pc \in {"idle", "passthrough", "responded"}
    /\ handlers[i].net # "pending"
    /\ puts[i].state # "pending"
    /\ trims[i].pc \in {"none", "done", "failed"}

Quiescent == \A i \in HandlerIds : Settled_Request(i)

InitBound ==
    /\ \E stored \in BoundInstalled :
          caches = (CACHE_HTML :> Precached(htmlList)) @@ (CACHE_ASSETS :> Precached(stored))
    /\ handlers = [i \in HandlerIds |-> IdleHandler]
    /\ puts = [i \in HandlerIds |-> NoPut]
    /\ trims = [i \in HandlerIds |-> NoTrim]
    /\ install = [IdleInstall EXCEPT !.pc = "done", !.skipWaiting = TRUE]
    /\ activate = [IdleActivate EXCEPT !.pc = "done", !.claimed = TRUE]
    /\ start = caches

\* a fetch event that arrives when no other request is in flight
QuietFetchEvent(i, req) ==
    /\ Quiescent
    /\ FetchEvent(i, req)

NextBound ==
    \/ \E i \in HandlerIds, req \in BoundRequests : QuietFetchEvent(i, req)
    \/ \E i \in HandlerIds : AssetOpen(i)
    \/ \E i \in HandlerIds : AssetMatch(i)
    \/ \E i \in HandlerIds, outcome \in NetOutcomes : AssetFetchSettle(i, outcome)
    \/ \E i \in HandlerIds : OtherOpen(i)
    \/ \E i \in HandlerIds, outcome \in NetOutcomes : OtherFetchSettle(i, outcome)
    \/ \E i \in HandlerIds : OtherMatch(i)
    \/ \E i \in HandlerIds : PutDone(i)
    \/ \E i \in HandlerIds : PutFail(i)
    \/ \E i \in HandlerIds : TrimOpen(i)
    \/ \E i \in HandlerIds : TrimKeys(i)
    \/ \E i \in HandlerIds : TrimDelete(i)
    \/ \E i \in HandlerIds : TrimFail(i)

SpecBound == InitBound /\ [][NextBound]_vars

-----------------------------------------------------------------------------
(* The second worker script (src/unnamed/part_000): its activate handler *)

\* part_000 line 1
CACHE == BarvyCache

\* the cache of the script's previous version
OlderBarvy == <<"barvy-v6">>

BarvyNames == {OlderBarvy, CACHE_HTML, CACHE_ASSETS, OldHtml, InnerPrefixCache,
               SharedPrefixCache}

\* BarvyShouldDelete with the filter of sw.js, which looks at the prefix (C20)
BarvyShouldDelete_Prefixed(k) == StartsWith(k, CACHE_PREFIX) /\ k # CACHE

\* part_000 line 20: keys.filter(k => k !== CACHE)
BarvyShouldDelete(k) == k # CACHE

\* install has opened CACHE (part_000 line 5), unless the storage was cleared since
InitBarvy ==
    /\ \E own \in SUBSET {CACHE}, others \in SUBSET BarvyNames :
          caches = [n \in own \cup others |-> ContentOf(n)]
    /\ handlers = [i \in HandlerIds |-> IdleHandler]
    /\ puts = [i \in HandlerIds |-> NoPut]
    /\ trims = [i \in HandlerIds |-> NoTrim]
    /\ install = [IdleInstall EXCEPT !.pc = "done", !.skipWaiting = TRUE]
    /\ activate = IdleActivate
    /\ start = caches

\* the activate event fires; part_000 line 19: caches.keys() is called
BarvyActivateStart ==
    /\ activate.pc = "idle"
    /\ activate' = [activate EXCEPT !.pc = "keys"]
    /\ start' = caches
    /\ UNCHANGED <<caches, handlers, puts, trims, install>>

\* line 19 resolves; line 20: caches.delete is called for every name kept by the filter
BarvyActivateKeys ==
    /\ activate.pc = "keys"
    /\ activate' = [activate EXCEPT
            !.pc = "deleting",
            !.keys = DOMAIN caches,
            !.pending = {k \in DOMAIN caches : BarvyShouldDelete(k)}]
    /\ UNCHANGED <<caches, handlers, puts, trims, install, start>>

\* line 20: one caches.delete(k) resolves; the others go on after a rejection
BarvyActivateDelete(k) ==
    /\ activate.pc \in {"deleting", "rejected"}
    /\ k \in activate.pending
    /\ caches' = CachesDelete(caches, k)
    /\ activate' = [activate EXCEPT !.pending = @ \ {k}]
    /\ UNCHANGED <<handlers, puts, trims, install, start>>

\* line 20: one caches.delete(k) rejects: Promise.all rejects and the .then of
\* line 21 is skipped
BarvyActivateDeleteFail(k) ==
    /\ activate.pc \in {"deleting", "rejected"}
    /\ k \in activate.pending
    /\ activate' = [activate EXCEPT !.pc = "rejected", !.pending = @ \ {k}]
    /\ UNCHANGED <<caches, handlers, puts, trims, install, start>>

\* line 20: Promise.all resolves; line 21: self.clients.claim() is called
BarvyActivateClaim ==
    /\ activate.pc = "deleting"
    /\ activate.pending = {}
    /\ activate' = [activate EXCEPT !.pc = "claim", !.claimed = TRUE]
    /\ UNCHANGED <<caches, handlers, puts, trims, install, start>>

\* line 21 resolves: the promise given to waitUntil is fulfilled
BarvyActivateDone ==
    /\ activate.pc = "claim"
    /\ activate' = [activate EXCEPT !.pc = "done"]
    /\ UNCHANGED <<caches, handlers, puts, trims, install, start>>

NextBarvy ==
    \/ BarvyActivateStart
    \/ BarvyActivateKeys
    \/ \E k \in BarvyNames : BarvyActivateDelete(k)
    \/ \E k \in BarvyNames : BarvyActivateDeleteFail(k)
    \/ BarvyActivateClaim
    \/ BarvyActivateDone

SpecBarvy == InitBarvy /\ [][NextBarvy]_vars

-----------------------------------------------------------------------------
(* Vocabulary of the properties *)

Intercepted(h) == h.pc # "idle" /\ h.req.method = "GET" /\ isSameOrigin(h.req)
Document(h) == Intercepted(h) /\ isHTMLRequest(h.req)
Asset(h) == Intercepted(h) /\ ~isHTMLRequest(h.req) /\ isAssetRequest(h.req)
Other(h) == Intercepted(h) /\ ~isHTMLRequest(h.req) /\ ~isAssetRequest(h.req)

\* handler i leaves the suspension point `from` in this step
Moves(i, from) == handlers[i].pc = from /\ handlers'[i].pc # from

\* the store started by handler i completes in this step
StoreCompletes(i) == puts[i].state = "pending" /\ puts'[i].state = "done"

DocEntry(cs, key) == CachesMatch(cs, CACHE_HTML, key)
AssetEntry(cs, key) == CachesMatch(cs, CACHE_ASSETS, key)

PlainText(res) == Len(res.ctype) >= 1 /\ res.ctype[1] = "text/plain"

-----------------------------------------------------------------------------
(* C1 *)

C1_Returned(i) ==
    LET h == handlers[i]
    IN  (Document(h) /\ h.net = "ok") =>
            /\ h.pc = "responded"
            /\ h.response = NetResponse(h.req.url, 200, i)
            /\ puts[i].state # "none"

C1_Stored(i) ==
    (Document(handlers[i]) /\ StoreCompletes(i)) =>
        DocEntry(caches', handlers[i].req.url) = NetResponse(handlers[i].req.url, 200, i)

\* C1 as stated: for a document request whose network fetch succeeded with a
\* successful status, the handler returned that response and, once the store
\* it started is over (no other event writing the key), the document partition
\* holds an entry for the request with that response.
C1_Original ==
    \A i \in HandlerIds :
        LET h == handlers[i]
        IN  (/\ Document(h) /\ h.net = "ok"
             /\ puts[i].state \in {"done", "failed"}
             /\ \A j \in HandlerIds \ {i} : handlers[j].req.url # h.req.url)
            => /\ h.response = NetResponse(h.req.url, 200, i)
               /\ DocEntry(caches, h.req.url) = h.response

\* C1, amended: for a document request whose network fetch succeeded with a
\* successful status, the handler returns exactly that network response and has
\* started a store of it; when that store completes (it may fail or be lost),
\* the document partition holds an entry for the request with that response.
C1_Amended ==
    /\ [](\A i \in HandlerIds : C1_Returned(i))
    /\ [][\A i \in HandlerIds : C1_Stored(i)]_vars

C1_Witness ==
    \E i \in HandlerIds :
        /\ Document(handlers[i]) /\ handlers[i].net = "ok"
        /\ handlers[i].response = NetResponse(PagePath, 200, i)
        /\ puts[i].state = "done"
        /\ DocEntry(caches, PagePath) = handlers[i].response

-----------------------------------------------------------------------------
(* C2 *)

\* C2: when the network fetch of a document request has failed and the document
\* partition holds an entry for the request at the lookup, the handler answers
\* with that entry, not with the fallback document and not with the 503 response.
C2_CachedDocument ==
    [][\A i \in HandlerIds :
        LET h == handlers[i]
            entry == DocEntry(caches, h.req.url)
        IN  (Document(h) /\ h.net = "error" /\ Moves(i, "match") /\ entry # NoResponse)
            => /\ handlers'[i].pc = "responded"
               /\ handlers'[i].response = entry
               /\ handlers'[i].response # Offline503]_vars

C2_Witness ==
    \E i \in HandlerIds :
        LET h == handlers[i]
        IN  /\ Document(h) /\ h.net = "error" /\ h.pc = "responded"
            /\ h.response.url = h.req.url
            /\ h.response.url # IndexPath
            /\ DocEntry(caches, h.req.url) = h.response

-----------------------------------------------------------------------------
(* C3 *)

\* the entries install stores for the manifest's root and index paths
RootDocuments(cs) == {DocEntry(cs, RootPath), DocEntry(cs, IndexPath)} \ {NoResponse}

\* C3 as stated: when the network fetch has failed, the partition has no entry
\* for the request and an entry precached for the manifest's root or index path
\* exists, the handler answers with a root-document entry.
C3_Original ==
    [][\A i \in HandlerIds :
        LET h == handlers[i]
        IN  (Document(h) /\ h.net = "error" /\ Moves(i, "matchIndex")
             /\ RootDocuments(caches) # {})
            => /\ handlers'[i].pc = "responded"
               /\ handlers'[i].response \in RootDocuments(caches)]_vars

\* C3, amended: when the network fetch has failed and the partition has no
\* entry for the request, the handler looks up './index.html'; when the
\* partition holds an entry for './index.html' at that lookup, the handler
\* answers with it (an entry for './' alone is not used).
C3_Amended ==
    [][\A i \in HandlerIds :
        LET h == handlers[i]
        IN  /\ (Document(h) /\ h.net = "error" /\ Moves(i, "match")
                /\ DocEntry(caches, h.req.url) = NoResponse)
               => handlers'[i].pc = "matchIndex"
            /\ (Document(h) /\ h.net = "error" /\ Moves(i, "matchIndex")
                /\ DocEntry(caches, IndexPath) # NoResponse)
               => /\ handlers'[i].pc = "responded"
                  /\ handlers'[i].response = DocEntry(caches, IndexPath)]_vars

C3_Witness ==
    \E i \in HandlerIds :
        LET h == handlers[i]
        IN  /\ Document(h) /\ h.net = "error" /\ h.pc = "responded"
            /\ h.req.url # IndexPath
            /\ h.cached = NoResponse
            /\ h.response = NetResponse(IndexPath, 200, 0)

-----------------------------------------------------------------------------
(* C4 *)

C4_Resolves(i) ==
    LET h == handlers[i]
    IN  (Document(h) /\ h.net = "error") =>
            /\ h.pc \in {"match", "matchIndex", "responded"}
            /\ h.pc = "match" => ENABLED HtmlMatch(i)
            /\ h.pc = "matchIndex" => ENABLED HtmlMatchIndex(i)
            /\ h.pc = "responded" =>
                  /\ h.response # NoResponse
                  /\ \/ h.response = Offline503
                     \/ Ok(h.response) /\ h.response.url \in {h.req.url, IndexPath}

C4_Offline(i) ==
    LET h == handlers[i]
    IN  (Document(h) /\ h.net = "error" /\ Moves(i, "matchIndex")
         /\ DocEntry(caches, IndexPath) = NoResponse)
        => /\ handlers'[i].pc = "responded"
           /\ handlers'[i].response.status = 503
           /\ PlainText(handlers'[i].response)

\* C4: when the network fetch of a document request has failed and the
\* partition holds neither an entry for the request nor the fallback entry, the
\* handler answers with status 503 and a plain-text content type; after a
\* network failure the handler always goes on to a response, which is a cached
\* entry, the fallback document or the 503 response.
C4_OfflineResponse ==
    /\ [](\A i \in HandlerIds : C4_Resolves(i))
    /\ [][\A i \in HandlerIds : C4_Offline(i)]_vars

C4_Witness ==
    \E i \in HandlerIds :
        LET h == handlers[i]
        IN  /\ Document(h) /\ h.net = "error" /\ h.pc = "responded"
            /\ h.response.status = 503 /\ PlainText(h.response)
            /\ DocEntry(caches, h.req.url) = NoResponse
            /\ DocEntry(caches, IndexPath) = NoResponse

-----------------------------------------------------------------------------
(* C5 *)

\* C5: an asset request whose key has an entry in the asset partition at the
\* lookup is answered with that entry in the step of the lookup, while its
\* network fetch is still pending; the answer given never changes afterwards,
\* however the network fetch settles.
C5_CachedAtOnce ==
    [][\A i \in HandlerIds :
        LET h == handlers[i]
            entry == AssetEntry(caches, h.req.url)
        IN  /\ (Asset(h) /\ Moves(i, "match") /\ entry # NoResponse)
               => /\ handlers'[i].pc = "responded"
                  /\ handlers'[i].response = entry
                  /\ handlers'[i].net = "pending"
            /\ h.pc = "responded"
               => /\ handlers'[i].pc = "responded"
                  /\ handlers'[i].response = h.response]_vars

C5_Witness ==
    \E i \in HandlerIds :
        LET h == handlers[i]
        IN  /\ Asset(h) /\ h.pc = "responded" /\ h.net = "pending"
            /\ h.response # NoResponse
            /\ h.response = AssetEntry(caches, h.req.url)

-----------------------------------------------------------------------------
(* C6 *)

GatewayTimeout(res) == res.status = 504 /\ res.body = ""

\* C6: an asset request that found no entry at its lookup and whose network
\* fetch fails, and an 'other' request whose network fetch fails and that finds
\* no entry at its lookup, are answered with status 504 and an empty body, in
\* the step that finds the failure.
C6_GatewayTimeout ==
    [][\A i \in HandlerIds :
        LET h == handlers[i]
        IN  /\ (Asset(h) /\ Moves(i, "match"))
               => (handlers'[i].pc = "await" <=> AssetEntry(caches, h.req.url) = NoResponse)
            /\ (Asset(h) /\ h.pc = "await" /\ handlers'[i].net = "error")
               => /\ handlers'[i].pc = "responded"
                  /\ GatewayTimeout(handlers'[i].response)
            /\ (Other(h) /\ h.net = "pending" /\ handlers'[i].net = "error")
               => handlers'[i].pc = "match"
            /\ (Other(h) /\ h.net = "error" /\ Moves(i, "match")
                /\ AssetEntry(caches, h.req.url) = NoResponse)
               => /\ handlers'[i].pc = "responded"
                  /\ GatewayTimeout(handlers'[i].response)]_vars

C6_Witness ==
    \E i, j \in HandlerIds :
        /\ Asset(handlers[i]) /\ handlers[i].net = "error"
        /\ handlers[i].pc = "responded" /\ GatewayTimeout(handlers[i].response)
        /\ Other(handlers[j]) /\ handlers[j].net = "error"
        /\ handlers[j].pc = "responded" /\ GatewayTimeout(handlers[j].response)

-----------------------------------------------------------------------------
(* C7 *)

C7_Overwrites(i) ==
    LET h == handlers[i]
        before == caches[CACHE_ASSETS]
        after == caches'[CACHE_ASSETS]
    IN  (Asset(h) /\ StoreCompletes(i)) =>
            /\ Count(after, h.req.url) = 1
            /\ AssetEntry(caches', h.req.url) = NetResponse(h.req.url, 200, i)
            /\ Count(before, h.req.url) = 1 => Len(after) = Len(before)

NoDuplicateKeys ==
    \A name \in DOMAIN caches :
        \A j, k \in 1..Len(caches[name]) :
            caches[name][j].key = caches[name][k].key => j = k

\* C7: when the store of a successful asset fetch completes, the asset
\* partition holds exactly one entry for the request key, the one just stored;
\* a store for a key that already has an entry overwrites it and the number of
\* entries does not grow; no partition ever holds two entries for one key.
C7_Idempotent ==
    /\ []NoDuplicateKeys
    /\ [][\A i \in HandlerIds : C7_Overwrites(i)]_vars

\* two successful fetches of the same asset, both stores completed
C7_Witness ==
    \E i, j \in HandlerIds :
        /\ i # j
        /\ Asset(handlers[i]) /\ Asset(handlers[j])
        /\ handlers[i].req.url = handlers[j].req.url
        /\ handlers[i].net = "ok" /\ handlers[j].net = "ok"
        /\ puts[i].state = "done" /\ puts[j].state = "done"
        /\ Count(caches[CACHE_ASSETS], handlers[i].req.url) = 1

-----------------------------------------------------------------------------
(* C8 *)

CarriesPrefix(name) == StartsWith(name, CACHE_PREFIX)
Current(name) == name = CACHE_HTML \/ name = CACHE_ASSETS

\* C8: once the activate handler has deleted what it deletes (it then claims the
\* pages and completes), every partition that existed when it started, carries
\* the prefix and is not one of the two current partitions is gone; the two
\* current partitions and the partitions without the prefix exist with the
\* entries they had.
C8_Cleanup ==
    activate.pc \in {"claim", "done"} =>
        \A name \in DOMAIN start :
            IF CarriesPrefix(name) /\ ~Current(name)
            THEN name \notin DOMAIN caches
            ELSE name \in DOMAIN caches /\ caches[name] = start[name]

C8_Witness ==
    /\ activate.pc = "done"
    /\ {OldHtml, OldAssets, BarvyCache, InnerPrefixCache} \subseteq DOMAIN start
    /\ OldHtml \notin DOMAIN caches /\ OldAssets \notin DOMAIN caches
    /\ DOMAIN caches = {CACHE_HTML, CACHE_ASSETS, BarvyCache, InnerPrefixCache}

-----------------------------------------------------------------------------
(* C9 *)

\* C9: when trimCache has run to its end on a partition that nothing else
\* writes, a partition that held more than maxEntries entries holds exactly
\* maxEntries entries, the youngest ones in their order (the entries removed
\* are the oldest), and a partition that held at most maxEntries entries is
\* as it was.
C9_Trim ==
    \A i \in HandlerIds :
        trims[i].pc = "done" =>
            LET before == start[trims[i].cacheName]
                after == caches[trims[i].cacheName]
                N == trims[i].maxEntries
                n == Len(before)
            IN  IF n <= N
                THEN after = before
                ELSE Len(after) = N /\ after = SubSeq(before, n - N + 1, n)

C9_Witness ==
    \E i \in HandlerIds :
        /\ trims[i].pc = "done"
        /\ trims[i].maxEntries >= 1
        /\ Len(start[CACHE_ASSETS]) = trims[i].maxEntries + 2
        /\ Len(caches[CACHE_ASSETS]) = trims[i].maxEntries
        /\ caches[CACHE_ASSETS][1] = start[CACHE_ASSETS][3]

-----------------------------------------------------------------------------
(* C10 *)

ManifestPaths == Elements(CORE_ASSETS)

DocumentLike(p) == EndsWith(p, "/") \/ EndsWith(p, ".html")

\* path p is stored in the partition of its kind and not in the other one
Precachedp(p) ==
    /\ CachesMatch(caches, IF DocumentLike(p) THEN CACHE_HTML ELSE CACHE_ASSETS, p)
          = NetResponse(p, 200, 0)
    /\ CachesMatch(caches, IF DocumentLike(p) THEN CACHE_ASSETS ELSE CACHE_HTML, p)
          = NoResponse

AttemptsSettled == \A p \in ManifestPaths : install.task[p] \in {"fulfilled", "rejected"}

\* C10 as stated: install never fails, skipWaiting is called only when every
\* attempt has settled, every path has then been fetched, and every path whose
\* fetch succeeded is stored in the partition of its kind.
C10_Original ==
    /\ install.pc # "failed"
    /\ install.skipWaiting => AttemptsSettled
    /\ install.pc \in {"skipWaiting", "done"} =>
          \A p \in ManifestPaths :
              /\ install.fetched[p] # "none"
              /\ install.fetched[p] = "ok" => Precachedp(p)

\* C10, amended: install never fails, skipWaiting is called only when every
\* attempt has settled, every path has then been fetched, and every path whose
\* fetch succeeded and whose store did not fail is stored in the partition of
\* its kind, whatever happened to the other paths.
C10_Amended ==
    /\ install.pc # "failed"
    /\ install.skipWaiting => AttemptsSettled
    /\ install.pc \in {"skipWaiting", "done"} =>
          \A p \in ManifestPaths :
              /\ install.fetched[p] # "none"
              /\ (install.fetched[p] = "ok" /\ install.task[p] = "fulfilled")
                    => Precachedp(p)
              /\ install.fetched[p] # "ok" => ~Precachedp(p)

C10_Witness ==
    /\ install.pc = "done" /\ install.skipWaiting
    /\ install.fetched[RootPath] = "error"
    /\ install.fetched[ManifestPath] = "nonok"
    /\ install.fetched[Icon192Path] = "error"
    /\ Precachedp(IndexPath) /\ Precachedp(SwPath) /\ Precachedp(Icon512Path)

-----------------------------------------------------------------------------
(* C11 *)

NotEligible(req) == req.method # "GET" \/ req.origin # LocationOrigin

C11_Untouched(i) ==
    LET h == handlers[i]
    IN  (h.pc # "idle" /\ NotEligible(h.req)) =>
            /\ h.pc = "passthrough"
            /\ h.response = NoResponse
            /\ h.net = "none" /\ h.fresh = NoResponse /\ h.cached = NoResponse
            /\ puts[i] = NoPut
            /\ trims[i] = NoTrim

C11_Frame(i) ==
    (handlers[i].pc \in {"idle", "passthrough"} /\ handlers'[i] # handlers[i]
     /\ NotEligible(handlers'[i].req))
    => /\ caches' = caches
       /\ puts' = puts
       /\ trims' = trims

\* C11: for a request that is not GET or is not same-origin the fetch handler
\* produces no response, starts no network fetch, no store and no trim, and the
\* step that receives the request leaves every partition as it was; nothing
\* runs for that request afterwards.
C11_NotIntercepted ==
    /\ [](\A i \in HandlerIds : C11_Untouched(i))
    /\ [][\A i \in HandlerIds : C11_Frame(i)]_vars

\* a POST and a cross-origin GET were received next to an intercepted request
C11_Witness ==
    \E i, j \in HandlerIds :
        /\ i # j
        /\ handlers[i].pc = "passthrough"
        /\ handlers[i].req \in {ReqPost, ReqCdn}
        /\ handlers[j].pc = "responded"
        /\ caches # start

-----------------------------------------------------------------------------
(* C12 *)

\* what the handler gives respondWith is a response, never a rejection
C12_Response(i) == handlers[i].pc # "rejected"

\* a failed store or trim leaves the answer what it is when they succeed: the
\* network response, or the cached entry of stale-while-revalidate
C12_WritesAdvisory(i) ==
    LET h == handlers[i]
    IN  (puts[i].state = "failed" \/ trims[i].pc = "failed") =>
            /\ h.pc = "responded"
            /\ h.response # NoResponse
            /\ h.response = IF Asset(h) /\ h.cached # NoResponse THEN h.cached ELSE h.fresh

\* C12 as stated: whatever storage operation fails (partition open, store,
\* lookup or trim), the handler ends with a response and not with a rejection,
\* and when only a store or trim fails the response is the one given when they
\* succeed.
C12_Claim ==
    \A i \in HandlerIds : C12_Response(i) /\ C12_WritesAdvisory(i)

\* the part of C12 the code keeps: failures of the un-awaited store and trim
C12_StoreAndTrimOnly == \A i \in HandlerIds : C12_WritesAdvisory(i)

-----------------------------------------------------------------------------
(* C13 *)

PrefixedPartitions == {name \in DOMAIN caches : CarriesPrefix(name)}

\* C13 as stated: at every moment after the activation has completed, the
\* partitions that carry the prefix are exactly the document partition and the
\* asset partition of the current version tag, whatever the fetch handlers of
\* the current version and the background tasks a previous version left in
\* flight do afterwards.
C13_Claim ==
    activate.pc = "done" => PrefixedPartitions = {CACHE_HTML, CACHE_ASSETS}

\* the part of C13 the code keeps: the two current partitions exist from the
\* end of the activation on
C13_CurrentExist ==
    activate.pc = "done" => {CACHE_HTML, CACHE_ASSETS} \subseteq DOMAIN caches

-----------------------------------------------------------------------------
(* C14 *)

\* the categories as the specification defines them
DocumentCategory(req) ==
    req.mode = "navigate" \/ \E j \in 1..Len(req.accept) : req.accept[j] = "text/html"

AssetDestination(req) ==
    req.destination \in {"script", "style", "image", "font", "audio", "video"}

\* the first step of each strategy: the partition it opens and what it does
\* next (network first, or lookup first)
RunsNetworkFirstOnDocuments(i) ==
    handlers'[i].pc = "fetch" /\ caches' = CachesOpen(caches, CACHE_HTML)
RunsStaleWhileRevalidate(i) ==
    handlers'[i].pc = "match" /\ caches' = CachesOpen(caches, CACHE_ASSETS)
RunsNetworkFirstOnAssets(i) ==
    handlers'[i].pc = "fetch" /\ caches' = CachesOpen(caches, CACHE_ASSETS)

\* where a strategy stores and whether it trims
StoresAs(i, document, asset) ==
    /\ puts[i].state # "none" =>
          puts[i].cacheName = IF document THEN CACHE_HTML ELSE CACHE_ASSETS
    /\ trims[i].pc # "none" <=> (asset /\ handlers[i].net = "ok")
    /\ handlers[i].pc = "matchIndex" => document

\* C14 as stated: a same-origin GET request is a document iff it is a
\* navigation or accepts HTML, an asset iff its destination is one of script,
\* style, image, font, audio, video, and other otherwise, and the handler runs
\* the strategy of that category.
C14_Original ==
    [][\A i \in HandlerIds :
        LET req == handlers[i].req
        IN  Moves(i, "open") =>
              /\ DocumentCategory(req) => RunsNetworkFirstOnDocuments(i)
              /\ AssetDestination(req) => RunsStaleWhileRevalidate(i)
              /\ (~DocumentCategory(req) /\ ~AssetDestination(req))
                    => RunsNetworkFirstOnAssets(i)]_vars

\* C14, amended: the document test comes first: a request is a document iff it
\* is a navigation or accepts HTML, an asset iff it is no document and its
\* destination is one of script, style, image, font, audio, video, and other
\* otherwise; the handler runs the strategy of that one category, stores into
\* the partition of that strategy and trims only after a successful asset fetch.
C14_Amended ==
    /\ [](\A i \in HandlerIds :
            LET req == handlers[i].req
            IN  handlers[i].pc \notin {"idle", "passthrough"} =>
                  StoresAs(i, DocumentCategory(req),
                           ~DocumentCategory(req) /\ AssetDestination(req)))
    /\ [][\A i \in HandlerIds :
            LET req == handlers[i].req
            IN  Moves(i, "open") =>
                  /\ DocumentCategory(req) => RunsNetworkFirstOnDocuments(i)
                  /\ (~DocumentCategory(req) /\ AssetDestination(req))
                        => RunsStaleWhileRevalidate(i)
                  /\ (~DocumentCategory(req) /\ ~AssetDestination(req))
                        => RunsNetworkFirstOnAssets(i)]_vars

\* a font request started by a link prefetch, with the accept header of a
\* document, went through the document strategy on a cleared storage
C14_Witness ==
    \E i \in HandlerIds :
        LET h == handlers[i]
        IN  /\ h.req.destination = "font" /\ h.req.accept = HtmlAccept
            /\ h.req.mode # "navigate"
            /\ h.net = "ok" /\ h.pc = "responded"
            /\ puts[i].state = "done" /\ puts[i].cacheName = CACHE_HTML
            /\ DOMAIN caches = {CACHE_HTML}
            /\ trims[i] = NoTrim

-----------------------------------------------------------------------------
(* C15 *)

\* the store of handler i into partition name for key completes in this step
Lands(i, name, key) ==
    StoreCompletes(i) /\ puts[i].cacheName = name /\ puts[i].key = key

KeysInPlay == {handlers[i].req.url : i \in HandlerIds} \ {<<>>}

\* the entry of a key changes only when a store for it completes, and is then
\* the response of that store; any other step keeps it or removes it (a trim)
C15_LastWrite(name, key) ==
    LET entry == CachesMatch(caches, name, key)
        after == CachesMatch(caches', name, key)
    IN  /\ \A i \in HandlerIds : Lands(i, name, key) => after = puts[i].resp
        /\ (\A i \in HandlerIds : ~Lands(i, name, key)) => after \in {entry, NoResponse}

\* the responses of the stores into partition name for key that are over: with
\* two requests for the key, the responses of the two
StoredFor(name, key) ==
    {puts[k].resp : k \in {h \in HandlerIds : /\ puts[h].state = "done"
                                              /\ puts[h].cacheName = name
                                              /\ puts[h].key = key}}

\* two requests for one resource, both fetched with success, both stores over
C15_Ends(i, j) ==
    LET hi == handlers[i]
        hj == handlers[j]
        name == puts[i].cacheName
        entry == CachesMatch(caches, name, hi.req.url)
    IN  (/\ i # j /\ Intercepted(hi) /\ Intercepted(hj)
         /\ hi.req.url = hj.req.url /\ hi.net = "ok" /\ hj.net = "ok"
         /\ puts[i].state = "done" /\ puts[j].state = "done"
         /\ puts[j].cacheName = name)
        => /\ Count(caches[name], hi.req.url) <= 1
           /\ entry # NoResponse => entry \in StoredFor(name, hi.req.url)

\* C15: when two fetch events for the same resource are in flight together and
\* both network fetches succeed, the partition has at most one entry for the
\* request key once both stores are over, and an entry that is present is the
\* response of one of the two stores: in every step the entry of a key becomes
\* the response of the store that completes in that step, and no other step
\* changes its value (a trim can only remove it), so the value present is the
\* one written by the store that completed last.
C15_LastWriteWins ==
    /\ [](\A i, j \in HandlerIds : C15_Ends(i, j))
    /\ [][\A name \in allowed, key \in KeysInPlay : C15_LastWrite(name, key)]_vars

\* both stores are over (and the trims, for an asset) and the entry is the
\* response fetched for the first of the two requests: its store completed last
C15_Witness ==
    \E i, j \in HandlerIds :
        /\ i < j
        /\ handlers[i].req.url = handlers[j].req.url
        /\ handlers[i].net = "ok" /\ handlers[j].net = "ok"
        /\ puts[i].state = "done" /\ puts[j].state = "done"
        /\ trims[i].pc \in {"none", "done"} /\ trims[j].pc \in {"none", "done"}
        /\ CachesMatch(caches, puts[i].cacheName, handlers[i].req.url)
              = NetResponse(handlers[i].req.url, 200, i)

-----------------------------------------------------------------------------
(* C16 *)

\* handler i answered an asset request from the cache and its background
\* fetch then succeeded with a successful status
C16_Revalidating(i) ==
    LET h == handlers[i]
    IN  /\ Asset(h) /\ h.pc = "responded"
        /\ h.cached # NoResponse /\ h.response = h.cached
        /\ h.net = "ok"

C16_Fresh(i) ==
    AssetEntry(caches, handlers[i].req.url) = NetResponse(handlers[i].req.url, 200, i)

\* a later lookup of the refreshed key answers with the fresh response
C16_NextLoad(i, j) ==
    (/\ C16_Revalidating(i) /\ C16_Fresh(i)
     /\ Asset(handlers[j]) /\ handlers[j].req.url = handlers[i].req.url
     /\ Moves(j, "match"))
    => /\ handlers'[j].pc = "responded"
       /\ handlers'[j].response = NetResponse(handlers[i].req.url, 200, i)
       /\ handlers'[j].response # handlers[i].response

\* C16: when an asset request was answered from the cache and its background
\* fetch succeeded with a successful status, then, the worker not being
\* terminated, the store fails or the asset partition comes to hold the fresh
\* response for the request key; a request for the same asset that looks the
\* key up while that entry is there is answered with the fresh response, not
\* with the stale one.
C16_BackgroundRefresh ==
    /\ \A i \in HandlerIds :
          (C16_Revalidating(i) /\ puts[i].state # "done")
              ~> (C16_Fresh(i) \/ puts[i].state = "failed")
    /\ [][\A i, j \in HandlerIds : C16_NextLoad(i, j)]_vars

\* the first request was answered with the precached entry, its refresh was
\* stored, and the next request for the asset was answered with the refresh
C16_Witness ==
    \E i, j \in HandlerIds :
        /\ i # j
        /\ C16_Revalidating(i)
        /\ handlers[i].response = NetResponse(handlers[i].req.url, 200, 0)
        /\ puts[i].state = "done"
        /\ Asset(handlers[j]) /\ handlers[j].req.url = handlers[i].req.url
        /\ handlers[j].pc = "responded"
        /\ handlers[j].response = NetResponse(handlers[i].req.url, 200, i)

-----------------------------------------------------------------------------
(* C17 *)

SuccessfulStatus(res) == res.status \in 200..299

\* a response that came from the network for the key, not one the worker made
FromNetwork(key, res) ==
    /\ res.url = key
    /\ res.ctype = <<"origin">>
    /\ res \notin {NoResponse, Offline503, Empty504}

C17_Entries ==
    \A name \in allowed \cap DOMAIN caches :
        \A j \in 1..Len(caches[name]) :
            LET e == caches[name][j]
            IN  SuccessfulStatus(e.resp) /\ FromNetwork(e.key, e.resp)

\* no store is even started for another response
C17_Stores ==
    \A i \in HandlerIds :
        puts[i].state # "none" =>
            SuccessfulStatus(puts[i].resp) /\ FromNetwork(puts[i].key, puts[i].resp)

C17_NonOkDocument(i) ==
    LET h == handlers[i]
    IN  (Document(h) /\ h.pc = "fetch" /\ handlers'[i].net = "nonok")
        => /\ handlers'[i].pc = "responded"
           /\ handlers'[i].response = NetResponse(h.req.url, 404, i)
           /\ puts'[i] = NoPut
           /\ caches' = caches

\* C17: every entry of the document and asset partitions is a network response
\* with a successful status, stored for its own request key: install and the
\* three strategies store nothing else (no response with another status, no
\* 503 or 504 made by the worker), and a document fetch that completes with
\* another status is returned as it is and not stored.
C17_OnlySuccessfulStored ==
    /\ [](C17_Entries /\ C17_Stores)
    /\ [][\A i \in HandlerIds : C17_NonOkDocument(i)]_vars

\* a document fetch completed with status 404 and was returned; the partition
\* has no entry for it
C17_Witness ==
    \E i \in HandlerIds :
        LET h == handlers[i]
        IN  /\ Document(h) /\ h.net = "nonok" /\ h.pc = "responded"
            /\ h.response.status = 404
            /\ DocEntry(caches, h.req.url) = NoResponse
            /\ puts[i] = NoPut

-----------------------------------------------------------------------------
(* C18 *)

AssetPartition == caches[CACHE_ASSETS]

\* request k is the latest one received
Latest(k) ==
    /\ handlers[k].pc # "idle"
    /\ \A j \in HandlerIds : j > k => handlers[j].pc = "idle"

\* the trim of request k ran to its end after a successful asset fetch
Trimmed(k) ==
    /\ Asset(handlers[k]) /\ handlers[k].net = "ok"
    /\ trims[k].pc = "done"

\* the store of request k was counted by its trim: it had landed when the trim
\* read the keys (its key is the youngest of the list), or it failed
Counted(k) ==
    \/ puts[k].state = "failed"
    \/ /\ Len(trims[k].keys) >= 1
       /\ trims[k].keys[Len(trims[k].keys)] = puts[k].key

\* C18 as stated: in every quiescent state the asset partition holds at most
\* MAX_ASSET_ENTRIES entries.
C18_Original == Quiescent => Len(AssetPartition) <= MAX_ASSET_ENTRIES

\* C18, amended: with requests handled one after another, in the quiescent
\* state after an asset request whose fetch succeeded and whose trim ran to
\* its end, the asset partition holds at most MAX_ASSET_ENTRIES + 1 entries,
\* and at most MAX_ASSET_ENTRIES when the store of that request had landed
\* before the trim read the keys or failed (an 'other' request stores without
\* trimming, and a store can land after its trim has read the keys).
C18_Amended ==
    \A k \in HandlerIds :
        (Quiescent /\ Latest(k) /\ Trimmed(k)) =>
            /\ Len(AssetPartition) <= MAX_ASSET_ENTRIES + 1
            /\ Counted(k) => Len(AssetPartition) <= MAX_ASSET_ENTRIES

\* an 'other' request left the partition above the threshold and the trim of
\* the asset request after it brought it back
C18_Witness ==
    \E k \in HandlerIds :
        /\ Quiescent /\ Latest(k) /\ Trimmed(k) /\ Counted(k)
        /\ puts[k].state = "done"
        /\ trims[k].deleteCount >= 1
        /\ Len(trims[k].keys) > MAX_ASSET_ENTRIES + 1
        /\ Len(AssetPartition) = MAX_ASSET_ENTRIES

-----------------------------------------------------------------------------
(* C19 *)

\* the keys the trim of request k set out to delete
Victims(k) == {trims[k].keys[j] : j \in 1..trims[k].deleteCount}

\* request k stored and trimmed with no failure and nothing else in flight
StoredAndTrimmed(k) ==
    /\ Quiescent /\ Latest(k) /\ Trimmed(k)
    /\ puts[k].state = "done"
    /\ \A j \in HandlerIds : puts[j].state # "failed" /\ trims[j].pc # "failed"

C19_Kept(k) ==
    AssetEntry(caches, handlers[k].req.url) = NetResponse(handlers[k].req.url, 200, k)

\* C19 as stated: once the store and the trim started by one asset request
\* have completed, with no storage failure and no other request in flight, the
\* asset partition contains the fresh response for the request key.
C19_Original == \A k \in HandlerIds : StoredAndTrimmed(k) => C19_Kept(k)

\* C19, amended: once the store and the trim started by one asset request have
\* completed, with no storage failure and no other request in flight, the
\* asset partition contains the fresh response for the request key unless that
\* key was among the oldest (count - maxEntries) keys when the trim read the
\* partition: the trim deletes those by key, the re-stored entry included.
C19_Amended ==
    \A k \in HandlerIds :
        (StoredAndTrimmed(k) /\ handlers[k].req.url \notin Victims(k)) => C19_Kept(k)

\* the trim deleted an older entry and the fresh response is in the partition
C19_Witness ==
    \E k \in HandlerIds :
        /\ StoredAndTrimmed(k)
        /\ trims[k].deleteCount >= 1
        /\ handlers[k].req.url \notin Victims(k)
        /\ handlers[k].cached # NoResponse
        /\ C19_Kept(k)

-----------------------------------------------------------------------------
(* C20 *)

\* of the caches that existed when the handler started, CACHE alone remains,
\* as it was
C20_OnlyCacheRemains ==
    /\ DOMAIN caches \cap DOMAIN start = DOMAIN start \cap {CACHE}
    /\ CACHE \in DOMAIN start => caches[CACHE] = start[CACHE]

\* C20: in the second worker script, once the activate handler has completed
\* the only cache remaining among those that existed at its start is the one
\* named CACHE, every cache with another name being deleted whatever its
\* prefix, and the open pages are claimed only after all those deletions have
\* completed.
C20_ActivateKeepsCacheOnly ==
    /\ activate.pc = "done" => C20_OnlyCacheRemains
    /\ activate.claimed => (activate.pending = {} /\ C20_OnlyCacheRemains)

\* the handler has completed after deleting caches with and without the
\* prefix of the first script, and the previous cache of its own
C20_Witness ==
    /\ activate.pc = "done" /\ activate.claimed
    /\ {CACHE, OlderBarvy, CACHE_HTML, CACHE_ASSETS, InnerPrefixCache} \subseteq DOMAIN start
    /\ DOMAIN caches = {CACHE}

====
